---- MODULE Spec2Model ----
(***************************************************************************)
(* Model of slug_intl::slugify (src/lib.rs).                               *)
(*                                                                         *)
(* A char is its Unicode scalar value, a string is a sequence of chars.    *)
(* The Unicode collaborators (general category, lowercase mapping, NFC)    *)
(* are modelled by the Unicode algorithms themselves, run on an extract    *)
(* of the Unicode Character Database that is closed under canonical        *)
(* decomposition, canonical composition and lowercasing.                   *)
(***************************************************************************)
EXTENDS Integers, Sequences, FiniteSets, TLC

\* Longest input string explored over the core chars.
MaxLen == 4

\* Longest input string explored over all chars of the extract.
MaxLenAll == 3

\* The "-" of lines 64 and 73.
HYPHEN == 45

(***************************************************************************)
(* Unicode Character Database extract.                                     *)
(*   cp     scalar value                                                   *)
(*   gc     major general category                                         *)
(*   ccc    canonical combining class                                      *)
(*   lower  full lowercase mapping (char::to_lowercase)                    *)
(*   upper  full uppercase mapping (char::to_uppercase)                    *)
(*   decomp canonical decomposition mapping (<<>> when there is none)      *)
(***************************************************************************)
UCD ==
  { [cp |->  10, gc |-> "C", ccc |->   0, lower |-> <<10>>,       upper |-> <<10>>,      decomp |-> <<>>],         \* U+000A LINE FEED
    [cp |->  32, gc |-> "Z", ccc |->   0, lower |-> <<32>>,       upper |-> <<32>>,      decomp |-> <<>>],         \* U+0020 SPACE
    [cp |->  45, gc |-> "P", ccc |->   0, lower |-> <<45>>,       upper |-> <<45>>,      decomp |-> <<>>],         \* U+002D HYPHEN-MINUS
    [cp |->  49, gc |-> "N", ccc |->   0, lower |-> <<49>>,       upper |-> <<49>>,      decomp |-> <<>>],         \* U+0031 DIGIT ONE
    [cp |->  61, gc |-> "S", ccc |->   0, lower |-> <<61>>,       upper |-> <<61>>,      decomp |-> <<>>],         \* U+003D EQUALS SIGN
    [cp |->  73, gc |-> "L", ccc |->   0, lower |-> <<105>>,      upper |-> <<73>>,      decomp |-> <<>>],         \* U+0049 I
    [cp |->  74, gc |-> "L", ccc |->   0, lower |-> <<106>>,      upper |-> <<74>>,      decomp |-> <<>>],         \* U+004A J
    [cp |-> 105, gc |-> "L", ccc |->   0, lower |-> <<105>>,      upper |-> <<73>>,      decomp |-> <<>>],         \* U+0069 i
    [cp |-> 106, gc |-> "L", ccc |->   0, lower |-> <<106>>,      upper |-> <<74>>,      decomp |-> <<>>],         \* U+006A j
    [cp |-> 304, gc |-> "L", ccc |->   0, lower |-> <<105, 775>>, upper |-> <<304>>,     decomp |-> <<73, 775>>],  \* U+0130 I WITH DOT ABOVE
    [cp |-> 463, gc |-> "L", ccc |->   0, lower |-> <<464>>,      upper |-> <<463>>,     decomp |-> <<73, 780>>],  \* U+01CF I WITH CARON
    [cp |-> 464, gc |-> "L", ccc |->   0, lower |-> <<464>>,      upper |-> <<463>>,     decomp |-> <<105, 780>>], \* U+01D0 i WITH CARON
    [cp |-> 496, gc |-> "L", ccc |->   0, lower |-> <<496>>,      upper |-> <<74, 780>>, decomp |-> <<106, 780>>], \* U+01F0 j WITH CARON
    [cp |-> 775, gc |-> "M", ccc |-> 230, lower |-> <<775>>,      upper |-> <<775>>,     decomp |-> <<>>],         \* U+0307 COMBINING DOT ABOVE
    [cp |-> 780, gc |-> "M", ccc |-> 230, lower |-> <<780>>,      upper |-> <<780>>,     decomp |-> <<>>] }        \* U+030C COMBINING CARON

\* The chars of the extract.
Chars == { u.cp : u \in UCD }

\* The database, indexed by char.
EntryOf == [c \in Chars |-> CHOOSE u \in UCD : u.cp = c]

\* The database entry of char c.
Entry(c) == EntryOf[c]

\* The chars the longest inputs are made of: one or more of every major
\* category, a cased pair, a letter with a two-char lowercase mapping, and
\* a precomposed letter with its base and mark.  The other chars of the
\* extract are those that decomposition and lowercasing reach from these.
CoreChars == {10, 32, 45, 49, 61, 74, 106, 304, 496, 780}

\* All strings of at most n chars of S.
Strings(S, n) == UNION { [1..k -> S] : k \in 0..n }

\* c.get_major_category()
get_major_category(c) == Entry(c).gc

\* Variant of to_lowercase: the char is kept as it is.
to_lowercase_unchanged(c) == <<c>>

\* c.to_lowercase(), as the sequence of chars the iterator yields
to_lowercase(c) == Entry(c).lower

\* str::to_uppercase(): every char replaced by its full uppercase mapping
RECURSIVE to_uppercase(_)
to_uppercase(s) ==
  IF s = <<>> THEN <<>>
  ELSE Entry(Head(s)).upper \o to_uppercase(Tail(s))

canonical_combining_class(c) == Entry(c).ccc

(***************************************************************************)
(* str.nfc(): canonical decomposition, canonical ordering, canonical       *)
(* composition (UAX #15).                                                  *)
(***************************************************************************)

\* Full canonical decomposition of one char (mappings applied recursively).
RECURSIVE decompose_canonical(_)
decompose_canonical(c) ==
  LET d == Entry(c).decomp IN
  IF d = <<>> THEN <<c>>
  ELSE decompose_canonical(d[1]) \o SubSeq(d, 2, Len(d))

RECURSIVE decompose_str(_)
decompose_str(s) ==
  IF s = <<>> THEN <<>>
  ELSE decompose_canonical(Head(s)) \o decompose_str(Tail(s))

\* Canonical ordering: a non-starter is moved before a preceding non-starter
\* of strictly greater combining class, until no such pair is left.
RECURSIVE canonical_order(_)
canonical_order(s) ==
  LET swaps == { k \in 1..(Len(s) - 1) :
                   /\ canonical_combining_class(s[k + 1]) > 0
                   /\ canonical_combining_class(s[k]) > canonical_combining_class(s[k + 1]) }
  IN IF swaps = {} THEN s
     ELSE LET k == CHOOSE x \in swaps : \A y \in swaps : x <= y
          IN canonical_order([j \in 1..Len(s) |->
                                IF j = k THEN s[k + 1]
                                ELSE IF j = k + 1 THEN s[k]
                                ELSE s[j]])

\* The composition table: the primary composite of every pair that has one.
CompositionTable ==
  [a \in Chars, b \in Chars |->
     LET cands == { u \in UCD : u.decomp = <<a, b>> }
     IN IF cands = {} THEN 0 ELSE (CHOOSE u \in cands : TRUE).cp]

\* The primary composite of the pair <<a, b>>, or 0 when there is none.
compose_pair(a, b) == CompositionTable[a, b]

\* Canonical composition of a decomposed, ordered string.  acc is the
\* composed prefix, starter the index in acc of the last starter (0: none).
RECURSIVE compose_from(_, _, _)
compose_from(acc, starter, rest) ==
  IF rest = <<>> THEN acc
  ELSE
    LET c       == Head(rest)
        cls     == canonical_combining_class(c)
        lastCls == canonical_combining_class(acc[Len(acc)])
        blocked == /\ starter < Len(acc)
                   /\ (lastCls = 0 \/ lastCls >= cls)
        comp    == IF starter = 0 THEN 0 ELSE compose_pair(acc[starter], c)
    IN IF starter > 0 /\ ~blocked /\ comp # 0
       THEN compose_from([acc EXCEPT ![starter] = comp], starter, Tail(rest))
       ELSE compose_from(Append(acc, c),
                         IF cls = 0 THEN Len(acc) + 1 ELSE starter,
                         Tail(rest))

compose_str(s) == compose_from(<<>>, 0, s)

\* Variant of nfc: the chars of the string as they come.
nfc_skipped(s) == s

nfc(s) == compose_str(canonical_order(decompose_str(s)))

(***************************************************************************)
(* slugify                                                                 *)
(***************************************************************************)

\* Variant of process_char: the P/Z/C arm returns "-" without setting the flag.
process_char_flag_not_set(c, prev) ==
  LET cat == get_major_category(c) IN
  IF cat = "L"
  THEN [s |-> to_lowercase(c), prev_hyphen |-> FALSE]
  ELSE IF cat \in {"M", "N", "S"}
  THEN [s |-> <<c>>, prev_hyphen |-> FALSE]
  ELSE IF prev
  THEN [s |-> <<>>, prev_hyphen |-> prev]
  ELSE [s |-> <<HYPHEN>>, prev_hyphen |-> prev]

\* Variant of process_char: the P/Z/C arm returns "-" whatever the flag.
process_char_flag_not_read(c, prev) ==
  LET cat == get_major_category(c) IN
  IF cat = "L"
  THEN [s |-> to_lowercase(c), prev_hyphen |-> FALSE]
  ELSE IF cat \in {"M", "N", "S"}
  THEN [s |-> <<c>>, prev_hyphen |-> FALSE]
  ELSE [s |-> <<HYPHEN>>, prev_hyphen |-> TRUE]

\* Variant of process_char: the L arm leaves the flag as it is.
process_char_flag_not_cleared(c, prev) ==
  LET cat == get_major_category(c) IN
  IF cat = "L"
  THEN [s |-> to_lowercase(c), prev_hyphen |-> prev]
  ELSE IF cat \in {"M", "N", "S"}
  THEN [s |-> <<c>>, prev_hyphen |-> FALSE]
  ELSE IF prev
  THEN [s |-> <<>>, prev_hyphen |-> prev]
  ELSE [s |-> <<HYPHEN>>, prev_hyphen |-> TRUE]

\* Variant of process_char: category C is matched by the M | N | S arm.
process_char_control_kept(c, prev) ==
  LET cat == get_major_category(c) IN
  IF cat = "L"
  THEN [s |-> to_lowercase(c), prev_hyphen |-> FALSE]
  ELSE IF cat \in {"M", "N", "S", "C"}
  THEN [s |-> <<c>>, prev_hyphen |-> FALSE]
  ELSE IF prev
  THEN [s |-> <<>>, prev_hyphen |-> prev]
  ELSE [s |-> <<HYPHEN>>, prev_hyphen |-> TRUE]

\* Variant of process_char: the M | N | S arm returns the empty string.
process_char_mark_dropped(c, prev) ==
  LET cat == get_major_category(c) IN
  IF cat = "L"
  THEN [s |-> to_lowercase(c), prev_hyphen |-> FALSE]
  ELSE IF cat \in {"M", "N", "S"}
  THEN [s |-> <<>>, prev_hyphen |-> FALSE]
  ELSE IF prev
  THEN [s |-> <<>>, prev_hyphen |-> prev]
  ELSE [s |-> <<HYPHEN>>, prev_hyphen |-> TRUE]

\* The closure process_char: the string it returns for c and the value it
\* leaves in the captured prev_hyphen.
process_char(c, prev) ==
  LET cat == get_major_category(c) IN
  IF cat = "L"
  THEN [s |-> to_lowercase(c), prev_hyphen |-> FALSE]
  ELSE IF cat \in {"M", "N", "S"}
  THEN [s |-> <<c>>, prev_hyphen |-> FALSE]
  ELSE \* P, Z, C
    IF prev
    THEN [s |-> <<>>, prev_hyphen |-> prev]
    ELSE [s |-> <<HYPHEN>>, prev_hyphen |-> TRUE]

\* Variant of trim_end_matches: nothing is removed.
trim_end_matches_nothing(s, pat) == s

\* s.trim_end_matches(pat) for a one-char pattern: the pattern is removed
\* from the end repeatedly.
RECURSIVE trim_end_matches(_, _)
trim_end_matches(s, pat) ==
  IF s # <<>> /\ s[Len(s)] = pat
  THEN trim_end_matches(SubSeq(s, 1, Len(s) - 1), pat)
  ELSE s

\* chars.flat_map(process_char).collect::<String>(), started with the given
\* value of prev_hyphen.
RECURSIVE flat_map_collect(_, _)
flat_map_collect(chars, prev) ==
  IF chars = <<>> THEN <<>>
  ELSE LET r == process_char(Head(chars), prev)
       IN r.s \o flat_map_collect(Tail(chars), r.prev_hyphen)

\* pub fn slugify(str: &str) -> String
slugify(s) == trim_end_matches(flat_map_collect(nfc(s), TRUE), HYPHEN)

(***************************************************************************)
(* slugify_with_options                                                    *)
(***************************************************************************)

\* The options values explored: the default one, and one whose bounds are
\* below the lengths slugify returns here.
SlugOptions ==
  { [minimum_length |-> 3, maximum_length |-> 30],
    [minimum_length |-> 6, maximum_length |-> 2] }

\* One step of the left fold over the normalized chars; acc carries the
\* output so far and previous_was_hyphen.
classify_and_rewrite(acc, c) ==
  LET cat == get_major_category(c) IN
  IF cat = "L"
  THEN [out |-> acc.out \o to_lowercase(c), previous_was_hyphen |-> FALSE]
  ELSE IF cat \in {"M", "N", "S"}
  THEN [out |-> Append(acc.out, c), previous_was_hyphen |-> FALSE]
  ELSE IF acc.previous_was_hyphen
  THEN acc
  ELSE [out |-> Append(acc.out, HYPHEN), previous_was_hyphen |-> TRUE]

RECURSIVE fold_chars(_, _)
fold_chars(acc, chars) ==
  IF chars = <<>> THEN acc
  ELSE fold_chars(classify_and_rewrite(acc, Head(chars)), Tail(chars))

\* Variant of slugify_with_options: the result is cut at maximum_length.
slugify_with_options_truncating(s, options) ==
  LET out == trim_end_matches(
               fold_chars([out |-> <<>>, previous_was_hyphen |-> TRUE], nfc(s)).out,
               HYPHEN)
  IN IF Len(out) > options.maximum_length
     THEN SubSeq(out, 1, options.maximum_length)
     ELSE out

\* slugify_with_options(input, options): normalize, fold, trim; options is
\* not consulted.
slugify_with_options(s, options) ==
  trim_end_matches(
    fold_chars([out |-> <<>>, previous_was_hyphen |-> TRUE], nfc(s)).out,
    HYPHEN)

(***************************************************************************)
(* One call of slugify, char by char.                                      *)
(***************************************************************************)
VARIABLES
  str,          \* the argument
  pc,           \* "call", "chars", "collected", "done", "done_with_options"
  norm,         \* the chars str.nfc() yields
  idx,          \* how many of them process_char has consumed
  buf,          \* the String being collected
  prev_hyphen,  \* the captured flag
  ret,          \* the returned String
  options,      \* the options of the call of slugify_with_options
  ret_options   \* the String slugify_with_options returned

vars == <<str, pc, norm, idx, buf, prev_hyphen, ret, options, ret_options>>

Init ==
  /\ str \in Strings(CoreChars, MaxLen) \cup Strings(Chars, MaxLenAll)
  /\ pc = "call"
  /\ norm = <<>>
  /\ idx = 0
  /\ buf = <<>>
  /\ prev_hyphen = TRUE
  /\ ret = <<>>
  /\ options = [minimum_length |-> 3, maximum_length |-> 30]
  /\ ret_options = <<>>

\* let mut prev_hyphen = true; str.nfc()
Normalize ==
  /\ pc = "call"
  /\ norm' = nfc(str)
  /\ prev_hyphen' = TRUE
  /\ pc' = "chars"
  /\ UNCHANGED <<str, idx, buf, ret, options, ret_options>>

\* one char through flat_map into collect
ProcessChar ==
  /\ pc = "chars"
  /\ idx < Len(norm)
  /\ LET r == process_char(norm[idx + 1], prev_hyphen)
     IN /\ buf' = buf \o r.s
        /\ prev_hyphen' = r.prev_hyphen
  /\ idx' = idx + 1
  /\ UNCHANGED <<str, pc, norm, ret, options, ret_options>>

\* the iterator is exhausted: collect returns
Collect ==
  /\ pc = "chars"
  /\ idx = Len(norm)
  /\ pc' = "collected"
  /\ UNCHANGED <<str, norm, idx, buf, prev_hyphen, ret, options, ret_options>>

\* .trim_end_matches("-").to_string()
TrimEnd ==
  /\ pc = "collected"
  /\ ret' = trim_end_matches(buf, HYPHEN)
  /\ pc' = "done"
  /\ UNCHANGED <<str, norm, idx, buf, prev_hyphen, options, ret_options>>

\* the same text given to slugify_with_options, with any options
CallWithOptions ==
  /\ pc = "done"
  /\ \E o \in SlugOptions :
       /\ options' = o
       /\ ret_options' = slugify_with_options(str, o)
  /\ pc' = "done_with_options"
  /\ UNCHANGED <<str, norm, idx, buf, prev_hyphen, ret>>

Next == Normalize \/ ProcessChar \/ Collect \/ TrimEnd \/ CallWithOptions

Spec == Init /\ [][Next]_vars

\* slugify has returned.
Returned == pc \in {"done", "done_with_options"}

(***************************************************************************)
(* Properties                                                              *)
(***************************************************************************)

\* Chars that reach the output (L, M, N, S) and chars that stand for a
\* separation (P, Z, C).
IsKept(c) == get_major_category(c) \in {"L", "M", "N", "S"}
IsSeparator(c) == get_major_category(c) \in {"P", "Z", "C"}

\* What a normalized string contributes besides hyphens: letters by their
\* lowercase mapping, marks, numbers and symbols as they are.
RECURSIVE Content(_)
Content(s) ==
  IF s = <<>> THEN <<>>
  ELSE (IF get_major_category(Head(s)) = "L" THEN Entry(Head(s)).lower
        ELSE IF IsKept(Head(s)) THEN <<Head(s)>>
        ELSE <<>>) \o Content(Tail(s))

\* s without its hyphens.
RECURSIVE StripHyphens(_)
StripHyphens(s) ==
  IF s = <<>> THEN <<>>
  ELSE (IF Head(s) = HYPHEN THEN <<>> ELSE <<Head(s)>>) \o StripHyphens(Tail(s))

HyphenPositions(s) == { k \in 1..Len(s) : s[k] = HYPHEN }

\* First positions of the maximal P/Z/C runs of s that have a kept char
\* before and a kept char after.
InteriorRuns(s) ==
  { k \in 2..Len(s) :
      /\ IsSeparator(s[k])
      /\ IsKept(s[k - 1])
      /\ \E m \in (k + 1)..Len(s) : IsKept(s[m]) }

\* Where the hyphens of those runs fall in the output.
RunHyphenPositions(s) ==
  { Len(Content(SubSeq(s, 1, k - 1)))
      + Cardinality({ j \in InteriorRuns(s) : j < k }) + 1 : k \in InteriorRuns(s) }

\* The strings got from s by replacing one precomposed char by its canonical
\* decomposition, or one base-and-mark pair by its precomposed char.
CanonicalVariants(s) ==
  { SubSeq(s, 1, k - 1) \o Entry(s[k]).decomp \o SubSeq(s, k + 1, Len(s)) :
      k \in { j \in 1..Len(s) : Entry(s[j]).decomp # <<>> } }
  \cup
  { SubSeq(s, 1, k - 1) \o <<CompositionTable[s[k], s[k + 1]]>> \o SubSeq(s, k + 2, Len(s)) :
      k \in { j \in 1..(Len(s) - 1) : CompositionTable[s[j], s[j + 1]] # 0 } }

\* A to Z and a to z.
IsBasicLatinLetter(c) == c \in (65..90) \cup (97..122)

\* C1: the string slugify returns has no two consecutive hyphens.
NoRepeatedHyphens ==
  Returned => \A k \in 1..(Len(ret) - 1) : ~(ret[k] = HYPHEN /\ ret[k + 1] = HYPHEN)

\* C1 witness: two adjacent separators between kept chars, one of them a
\* letter with a two-char lowercase mapping, gave a hyphen.
NoRepeatedHyphensWitness ==
  /\ pc = "done"
  /\ \E k \in 2..(Len(norm) - 2) :
       /\ IsSeparator(norm[k]) /\ IsSeparator(norm[k + 1])
       /\ norm[k - 1] = 304
       /\ IsKept(norm[k + 2])
  /\ HyphenPositions(ret) # {}

\* C2: the string slugify returns neither starts nor ends with a hyphen.
NoBoundaryHyphens ==
  Returned /\ ret # <<>> => ret[1] # HYPHEN /\ ret[Len(ret)] # HYPHEN

\* C2 witness: the input started and ended with separators and something
\* was returned.
NoBoundaryHyphensWitness ==
  /\ pc = "done"
  /\ Len(norm) >= 3
  /\ IsSeparator(norm[1]) /\ IsSeparator(norm[Len(norm)])
  /\ buf # ret
  /\ ret # <<>>

\* C3: slugify(slugify(t)) = slugify(t).
Idempotent ==
  pc = "done" => slugify(ret) = ret

\* C4: replacing a base letter and combining mark by the precomposed char,
\* or the reverse, does not change what slugify returns.
CanonicalEquivalence ==
  pc = "done" => \A t \in CanonicalVariants(str) : slugify(t) = ret

\* C4 witness: the input held j followed by a combining caron, and the
\* precomposed j with caron was returned.
CanonicalEquivalenceWitness ==
  /\ pc = "done"
  /\ \E k \in 1..(Len(str) - 1) : str[k] = 106 /\ str[k + 1] = 780
  /\ \E k \in 1..Len(ret) : ret[k] = 496
  /\ CanonicalVariants(str) # {}

\* C5: an input that is empty or made of P, Z and C chars only gives the
\* empty string.
SeparatorsOnlyGiveEmpty ==
  Returned /\ (\A k \in 1..Len(str) : IsSeparator(str[k])) => ret = <<>>

\* C5 witness: an input of three or more separators of the three categories.
SeparatorsOnlyGiveEmptyWitness ==
  /\ pc = "done"
  /\ Len(str) >= 3
  /\ \A k \in 1..Len(str) : IsSeparator(str[k])
  /\ { get_major_category(str[k]) : k \in 1..Len(str) } = {"P", "Z", "C"}
  /\ ret = <<>>

\* C6: a text of basic Latin letters and its uppercase give the same slug,
\* and no letter of the output has a lowercase mapping other than itself.
CaseConvergence ==
  Returned =>
    /\ (\A k \in 1..Len(str) : IsBasicLatinLetter(str[k]))
         => slugify(to_uppercase(str)) = ret
    /\ \A k \in 1..Len(ret) :
         get_major_category(ret[k]) = "L" => Entry(ret[k]).lower = <<ret[k]>>

\* C6 witness: a text of basic Latin letters of both cases.
CaseConvergenceWitness ==
  /\ pc = "done"
  /\ Len(str) >= 2
  /\ \A k \in 1..Len(str) : IsBasicLatinLetter(str[k])
  /\ \E k \in 1..Len(str) : str[k] = 74
  /\ \E k \in 1..Len(str) : str[k] = 105
  /\ to_uppercase(str) # str

\* C7: slugify_with_options returns what slugify returns, whatever the
\* options.
OptionsIgnored ==
  pc = "done_with_options" => ret_options = ret

\* C7 witness: options whose maximum_length is below the length of the
\* result and whose minimum_length is above it.
OptionsIgnoredWitness ==
  /\ pc = "done_with_options"
  /\ Len(ret) > options.maximum_length
  /\ Len(ret) < options.minimum_length
  /\ ret_options = ret

\* C8: after any prefix, prev_hyphen is true exactly when nothing has been
\* emitted or the last char emitted is a hyphen.
FlagTracksLastEmitted ==
  pc \in {"chars", "collected"} =>
    (prev_hyphen <=> (buf = <<>> \/ buf[Len(buf)] = HYPHEN))

\* C8 witness: after a letter with a two-char lowercase mapping and a
\* separator, the flag is true because of an emitted hyphen.
FlagTracksLastEmittedWitness ==
  /\ pc = "chars"
  /\ idx >= 2
  /\ norm[idx - 1] = 304
  /\ prev_hyphen
  /\ buf # <<>>

\* C9: the hyphens of the output are exactly one for every maximal P/Z/C run
\* that has a kept char before and after it.
OneHyphenPerInteriorRun ==
  Returned => HyphenPositions(ret) = RunHyphenPositions(norm)

\* C9 witness: a leading run, an interior run of two chars and a trailing
\* run give one hyphen.
OneHyphenPerInteriorRunWitness ==
  /\ pc = "done"
  /\ Len(norm) >= 4
  /\ IsKept(norm[1]) /\ IsSeparator(norm[2]) /\ IsSeparator(norm[3]) /\ IsKept(norm[4])
  /\ norm[2] # norm[3]
  /\ Cardinality(HyphenPositions(ret)) = 1

\* C10: the output without its hyphens is the normalized input with P/Z/C
\* chars dropped, letters lowercased and marks, numbers, symbols unchanged.
ContentPreserved ==
  Returned => StripHyphens(ret) = Content(norm)

\* C10 witness: a letter with a two-char lowercase mapping, a mark, a
\* separator and a number or symbol went through.
ContentPreservedWitness ==
  /\ pc = "done"
  /\ \E k \in 1..Len(norm) : norm[k] = 304
  /\ \E k \in 1..Len(norm) : get_major_category(norm[k]) = "M"
  /\ \E k \in 1..Len(norm) : get_major_category(norm[k]) \in {"N", "S"}
  /\ HyphenPositions(ret) # {}

====
